---- MODULE Spec2Model ----
(***************************************************************************)
(* Model of the per-frame flocking update of boids_rs (src/src/boids.rs):  *)
(* populate_grid builds the spatial index, update_boids runs one task per  *)
(* boid over the borrowed snapshot (rayon par_iter), collects the new      *)
(* state tuples and commits them in a sequential loop.                     *)
(*                                                                         *)
(* f32 values are fixed-point numbers: an integer n stands for n / SCALE.  *)
(* Sums and differences are exact, products, quotients and square roots    *)
(* are rounded to the nearest representable value (ties to even), as the   *)
(* IEEE operations of the code are; a sum of squares that is only compared *)
(* or square-rooted is kept exactly (no underflow of squares).  u32 and    *)
(* usize values are plain integers (whole units).                          *)
(***************************************************************************)
EXTENDS Integers, Sequences, FiniteSets, TLC

\* Bounds of the model.
NumBoids == 2
MaxFrames == 2
SCALE == 2

VARIABLES
    boids,            \* Vec<Boid>: slot index -> Boid
    width,            \* u32 argument of update_boids
    height,           \* u32 argument of update_boids
    parameters,       \* Parameters (immutable for the run)
    grid,             \* HashMap<(u32, u32), Vec<usize>> of the current call
    new_boid_states,  \* the collected Vec<(f32, f32, f32, f32, f32)>
    order,            \* the tasks that have finished, in completion order
    pc,               \* "idle" between calls, "compute" inside update_boids
    frame,            \* number of update_boids calls that have returned
    snapshot          \* history: the boids as they were when the call began

vars == <<boids, width, height, parameters, grid, new_boid_states, order, pc, frame, snapshot>>

Slots == 0 .. (NumBoids - 1)

Range(s) == {s[k] : k \in 1 .. Len(s)}

----------------------------------------------------------------------------
\* f32 and integer-cast arithmetic

I32Max == 2147483647

Abs(a) == IF a < 0 THEN -a ELSE a

\* n / d for d > 0, rounded to nearest, ties to even
RoundDiv(n, d) ==
    LET q == n \div d
        r == n % d
    IN  IF 2 * r < d THEN q
        ELSE IF 2 * r > d THEN q + 1
        ELSE IF q % 2 = 0 THEN q ELSE q + 1

\* a * b on f32
FMul(a, b) == RoundDiv(a * b, SCALE)

\* a / b on f32, b # 0
FDiv(a, b) == IF b > 0 THEN RoundDiv(a * SCALE, b) ELSE RoundDiv((-a) * SCALE, -b)

\* a * a + b * b where the sum is only compared with another such sum or
\* square-rooted: kept exactly, in units of 1 / SCALE^2
SumSq(a, b) == a * a + b * b

\* q.sqrt() of a sum of squares q >= 0 (units of 1 / SCALE^2), as an f32
FSqrt(q) ==
    LET r == CHOOSE k \in 0 .. (q + 1) : k * k <= q /\ q < (k + 1) * (k + 1)
    IN  IF q - r * r <= r THEN r ELSE r + 1

\* `f as u32`: truncates toward zero and saturates, so negative values give 0
\* (the upper saturation at 2^32 - 1 is above every number of the model)
F32AsU32(f) == IF f <= 0 THEN 0 ELSE f \div SCALE

\* `n as f32` for an unsigned integer
U32AsF32(n) == n * SCALE

\* (a / cell_size).floor(): the whole number of cells below a
FloorCell(a, cell_size) == a \div cell_size

\* `whole as u32` for a floored f32 (saturating)
WholeAsU32(q) == IF q < 0 THEN 0 ELSE q

\* `whole as i32` for a floored f32 (saturating)
WholeAsI32(q) == IF q < -I32Max - 1 THEN -I32Max - 1 ELSE IF q > I32Max THEN I32Max ELSE q

----------------------------------------------------------------------------
\* Boid

Boid(id, x, y, xv, yv, current_speed) ==
    [id |-> id, x |-> x, y |-> y, xv |-> xv, yv |-> yv, current_speed |-> current_speed]

----------------------------------------------------------------------------
\* populate_grid

EmptyGrid == [k \in {} |-> <<>>]

\* the key a boid is filed under
GridKey(boid, cell_size) ==
    <<WholeAsU32(FloorCell(boid.x, cell_size)), WholeAsU32(FloorCell(boid.y, cell_size))>>

\* GridInsert with the index put at the front of the list
GridInsertFront(g, key, index) ==
    IF key \in DOMAIN g
        THEN [g EXCEPT ![key] = <<index>> \o @]
        ELSE [k \in (DOMAIN g) \cup {key} |-> IF k = key THEN <<index>> ELSE g[k]]

\* grid.entry(key).or_default().push(index)
GridInsert(g, key, index) ==
    IF key \in DOMAIN g
        THEN [g EXCEPT ![key] = Append(@, index)]
        ELSE [k \in (DOMAIN g) \cup {key} |-> IF k = key THEN <<index>> ELSE g[k]]

RECURSIVE PopulateFrom(_, _, _, _)
PopulateFrom(bs, cell_size, index, g) ==
    IF index \notin DOMAIN bs THEN g
    ELSE PopulateFrom(bs, cell_size, index + 1,
                      GridInsert(g, GridKey(bs[index], cell_size), index))

populate_grid(bs, cell_size) == PopulateFrom(bs, cell_size, 0, EmptyGrid)

----------------------------------------------------------------------------
\* update_boids: the per-boid task

ZeroAcc ==
    [xpos_avg |-> 0, ypos_avg |-> 0, xvel_avg |-> 0, yvel_avg |-> 0,
     neighboring_boids |-> 0, close_dx |-> 0, close_dy |-> 0]

protected_range_squared(prm) == SumSq(prm.protected_range, 0)
visible_range_squared(prm) == SumSq(prm.visible_range, 0)

\* dx * dx + dy * dy
SquaredDistance(dx, dy) == SumSq(dx, dy)

\* the cell the scan of a boid is centred on
ScanCentre(boid, cell_size) ==
    <<WholeAsI32(FloorCell(boid.x, cell_size)), WholeAsI32(FloorCell(boid.y, cell_size))>>

\* 0..=1: the offsets of a scan that leaves out the cells before its own
OwnAndNextOffsets == <<0, 1>>

\* -1..=1
ScanOffsets == <<-1, 0, 1>>

\* the Vec found under (new_x, new_y), empty when the cell is skipped or absent
NearBoids(g, new_x, new_y) ==
    IF new_x >= 0 /\ new_y >= 0 /\ <<new_x, new_y>> \in DOMAIN g
        THEN g[<<new_x, new_y>>]
        ELSE <<>>

\* the slot indices the two nested offset loops visit, in visiting order
RECURSIVE CandidatesFrom(_, _, _, _)
CandidatesFrom(g, centre, ix, iy) ==
    IF ix > Len(ScanOffsets) THEN <<>>
    ELSE IF iy > Len(ScanOffsets) THEN CandidatesFrom(g, centre, ix + 1, 1)
    ELSE NearBoids(g, centre[1] + ScanOffsets[ix], centre[2] + ScanOffsets[iy])
            \o CandidatesFrom(g, centre, ix, iy + 1)

Candidates(g, boid, cell_size) == CandidatesFrom(g, ScanCentre(boid, cell_size), 1, 1)

\* body of the innermost loop for one candidate
ScanOne(acc, boid_idx, boid, otherboid_idx, otherboid, prm) ==
    IF otherboid_idx = boid_idx THEN acc
    ELSE
        LET dx == boid.x - otherboid.x
            dy == boid.y - otherboid.y
        IN  IF Abs(dx) < prm.visible_range /\ Abs(dy) < prm.visible_range
            THEN
                LET squared_distance == SquaredDistance(dx, dy)
                IN  IF squared_distance < protected_range_squared(prm)
                    THEN [acc EXCEPT !.close_dx = @ + dx, !.close_dy = @ + dy]
                    ELSE IF squared_distance < visible_range_squared(prm)
                    THEN [acc EXCEPT !.xpos_avg = @ + otherboid.x,
                                     !.ypos_avg = @ + otherboid.y,
                                     !.xvel_avg = @ + otherboid.xv,
                                     !.yvel_avg = @ + otherboid.yv,
                                     !.neighboring_boids = @ + 1]
                    ELSE acc
            ELSE acc

RECURSIVE ScanFrom(_, _, _, _, _, _)
ScanFrom(acc, bs, boid_idx, near_boids, k, prm) ==
    IF k > Len(near_boids) THEN acc
    ELSE ScanFrom(ScanOne(acc, boid_idx, bs[boid_idx], near_boids[k], bs[near_boids[k]], prm),
                  bs, boid_idx, near_boids, k + 1, prm)

\* the accumulators after the neighbour scan of boid boid_idx
Scan(bs, g, boid_idx, prm) ==
    ScanFrom(ZeroAcc, bs, boid_idx, Candidates(g, bs[boid_idx], prm.cell_size), 1, prm)

\* next velocity after cohesion, alignment and separation
Forces(acc, boid, prm) ==
    LET n == U32AsF32(acc.neighboring_boids)
        cohesion_x == IF acc.neighboring_boids > 0
                      THEN FMul(FDiv(acc.xpos_avg, n) - boid.x, prm.centering_factor)
                           + FMul(FDiv(acc.xvel_avg, n) - boid.xv, prm.matching_factor)
                      ELSE 0
        cohesion_y == IF acc.neighboring_boids > 0
                      THEN FMul(FDiv(acc.ypos_avg, n) - boid.y, prm.centering_factor)
                           + FMul(FDiv(acc.yvel_avg, n) - boid.yv, prm.matching_factor)
                      ELSE 0
    IN  <<boid.xv + cohesion_x + FMul(acc.close_dx, prm.avoid_factor),
          boid.yv + cohesion_y + FMul(acc.close_dy, prm.avoid_factor)>>

\* the four edge checks
Turn(v, boid, h, w, prm) ==
    LET yv1 == IF boid.y > U32AsF32(h - prm.margin) THEN v[2] - prm.turn_factor ELSE v[2]
        xv1 == IF boid.x > U32AsF32(w - prm.margin) THEN v[1] - prm.turn_factor ELSE v[1]
        xv2 == IF boid.x < U32AsF32(prm.margin) THEN xv1 + prm.turn_factor ELSE xv1
        yv2 == IF boid.y < U32AsF32(prm.margin) THEN yv1 + prm.turn_factor ELSE yv1
    IN  <<xv2, yv2>>

\* (boid.xv * boid.xv + boid.yv * boid.yv).sqrt()
Speed(boid) == FSqrt(SumSq(boid.xv, boid.yv))

\* the branch that draws a random velocity is taken
NudgeFires(boid, prm) == ~(Speed(boid) > 0) /\ prm.min_speed > 0

\* SpeedLimit with the speed of the too-slow branch left as it was measured
SpeedLimitKeepsMeasured(v, boid, prm, rx, ry) ==
    LET speed == Speed(boid)
    IN  IF speed > 0
        THEN IF speed < prm.min_speed
             THEN LET factor == FDiv(prm.min_speed, speed)
                  IN  <<FMul(v[1], factor), FMul(v[2], factor), speed>>
             ELSE IF speed > prm.max_speed
             THEN LET factor == FDiv(prm.max_speed, speed)
                  IN  <<FMul(v[1], factor), FMul(v[2], factor), prm.max_speed>>
             ELSE <<v[1], v[2], speed>>
        ELSE IF prm.min_speed > 0
        THEN <<rx, ry, prm.min_speed>>
        ELSE <<v[1], v[2], speed>>

\* "Make sure we're within speed limits": <<next_xv, next_yv, speed>>;
\* rx, ry are the two values drawn from the random source
SpeedLimit(v, boid, prm, rx, ry) ==
    LET speed == Speed(boid)
    IN  IF speed > 0
        THEN IF speed < prm.min_speed
             THEN LET factor == FDiv(prm.min_speed, speed)
                  IN  <<FMul(v[1], factor), FMul(v[2], factor), prm.min_speed>>
             ELSE IF speed > prm.max_speed
             THEN LET factor == FDiv(prm.max_speed, speed)
                  IN  <<FMul(v[1], factor), FMul(v[2], factor), prm.max_speed>>
             ELSE <<v[1], v[2], speed>>
        ELSE IF prm.min_speed > 0
        THEN <<rx, ry, prm.min_speed>>
        ELSE <<v[1], v[2], speed>>

\* the screen clamp of one axis
ClampAxis(next, dimension) ==
    IF F32AsU32(next) >= dimension THEN U32AsF32(dimension - 1) ELSE next

\* the closure of the parallel map: (next_x, next_y, next_xv, next_yv, speed)
ComputeState(bs, g, h, w, prm, boid_idx, rx, ry) ==
    LET boid == bs[boid_idx]
        acc == Scan(bs, g, boid_idx, prm)
        lim == SpeedLimit(Turn(Forces(acc, boid, prm), boid, h, w, prm), boid, prm, rx, ry)
    IN  <<ClampAxis(boid.x + lim[1], w), ClampAxis(boid.y + lim[2], h), lim[1], lim[2], lim[3]>>

\* rng.random_range(-min_speed..min_speed): the values one draw can give
RandomRange(prm) == (-prm.min_speed) .. (prm.min_speed - 1)

\* the draws a task makes: none (a fixed 0) unless the nudge branch is taken
Draws(boid, prm) == IF NudgeFires(boid, prm) THEN RandomRange(prm) ELSE {0}

----------------------------------------------------------------------------
\* update_boids: collect and commit

\* a slot of new_boid_states no task has filled yet
NoState == <<>>

\* the commit loop's five assignments for one boid
ApplyState(boid, st) ==
    [boid EXCEPT !.x = st[1], !.y = st[2], !.xv = st[3], !.yv = st[4],
                 !.current_speed = st[5]]

\* the element a tuple would go to if results were pushed as tasks finish
CompletionSlot(boid_idx, finished) == Len(finished)

\* collect() of the indexed parallel iterator: the tuple of boid boid_idx goes
\* to element boid_idx, whichever tasks have finished before it
CollectSlot(boid_idx, finished) == boid_idx

\* the boid collection if a task stored its tuple straight into its boid
WrittenInPlace(bs, boid_idx, st) == [bs EXCEPT ![boid_idx] = ApplyState(@, st)]

\* the boid collection after a task has run: the closure holds `boids`
\* through a shared borrow and returns its tuple, it writes nothing
BoidsAfterTask(bs, boid_idx, st) == bs

----------------------------------------------------------------------------
\* Inputs

\* width, height and Parameters of a run; f32 fields in multiples of 1 / SCALE
Configs ==
    {[width |-> 4, height |-> 4, margin |-> 1,
      max_speed |-> 2 * SCALE, min_speed |-> m,
      visible_range |-> 2 * SCALE, protected_range |-> SCALE,
      avoid_factor |-> SCALE, matching_factor |-> 1, centering_factor |-> 1,
      turn_factor |-> 1, cell_size |-> 2 * SCALE] : m \in {0, 1, 2}}

\* <<x, y, xv, yv>> of the boids a run may start with, all inside the screen.
\* Boids at rest are started where the random nudge cannot fire or has its
\* smallest range, and there beside one fast boid far from them.
InitialBoids(cfg) ==
    LET far == U32AsF32(cfg.width - 1)
        moving == {<<1 + cfg.protected_range, 1, 1, 0>>,
                   <<0, SCALE, -SCALE, 0>>,
                   <<far, far, 1, 1>>,
                   <<2 * SCALE, 1, 0, -(cfg.max_speed + 1)>>}
        resting == {<<1, 1, 0, 0>>, <<2, 1, 0, 0>>}
    IN  IF cfg.min_speed = 0 THEN moving \cup resting
        ELSE IF cfg.min_speed = 1 THEN resting \cup {<<far, far, 0, -(cfg.max_speed + 1)>>}
        ELSE moving \cup {<<1, 1, 1, 0>>}

----------------------------------------------------------------------------
\* The state machine

Init ==
    \E cfg \in Configs :
        /\ width = cfg.width
        /\ height = cfg.height
        /\ parameters = [f \in (DOMAIN cfg) \ {"width", "height"} |-> cfg[f]]
        /\ \E start \in [Slots -> InitialBoids(cfg)] :
               boids = [i \in Slots |->
                           Boid(i, start[i][1], start[i][2], start[i][3], start[i][4], 0)]
        /\ snapshot = boids
        /\ grid = EmptyGrid
        /\ new_boid_states = [i \in Slots |-> NoState]
        /\ order = <<>>
        /\ pc = "idle"
        /\ frame = 0

\* entry of update_boids: the grid is built from the current boids
StartUpdate ==
    /\ pc = "idle"
    /\ frame < MaxFrames
    /\ grid' = populate_grid(boids, parameters.cell_size)
    /\ snapshot' = boids
    /\ new_boid_states' = [i \in Slots |-> NoState]
    /\ order' = <<>>
    /\ pc' = "compute"
    /\ UNCHANGED <<boids, width, height, parameters, frame>>

\* one task of the parallel map runs to completion
Task(boid_idx) ==
    /\ pc = "compute"
    /\ boid_idx \notin Range(order)
    /\ \E rx \in Draws(boids[boid_idx], parameters) :
       \E ry \in Draws(boids[boid_idx], parameters) :
          LET st == ComputeState(boids, grid, height, width, parameters, boid_idx, rx, ry)
          IN  /\ new_boid_states' =
                     [new_boid_states EXCEPT ![CollectSlot(boid_idx, order)] = st]
              /\ boids' = BoidsAfterTask(boids, boid_idx, st)
    /\ order' = Append(order, boid_idx)
    /\ UNCHANGED <<width, height, parameters, grid, pc, frame, snapshot>>

\* "apply the changes": the sequential loop after collect() has returned
Commit ==
    /\ pc = "compute"
    /\ Len(order) = NumBoids
    /\ boids' = [i \in Slots |-> ApplyState(boids[i], new_boid_states[i])]
    /\ pc' = "idle"
    /\ frame' = frame + 1
    /\ UNCHANGED <<width, height, parameters, grid, new_boid_states, order, snapshot>>

Next ==
    \/ StartUpdate
    \/ \E boid_idx \in Slots : Task(boid_idx)
    \/ Commit

Spec == Init /\ [][Next]_vars

----------------------------------------------------------------------------
\* Vocabulary of the properties

\* the grid update_boids builds from a boid collection
GridOf(bs) == populate_grid(bs, parameters.cell_size)

\* an update_boids call has returned; snapshot holds the boids it was given
Updated == pc = "idle" /\ frame > 0

\* the largest coordinate inside the screen on an axis of the given dimension
LastInside(dimension) == U32AsF32(dimension - 1)

InScreen(boid) ==
    /\ 0 <= boid.x /\ boid.x <= LastInside(width)
    /\ 0 <= boid.y /\ boid.y <= LastInside(height)

NonNegative(boid) == boid.x >= 0 /\ boid.y >= 0

AtRest(boid) == boid.xv = 0 /\ boid.yv = 0

\* boid other is outside the box pre-filter of boid
OutOfSight(boid, other) ==
    ~(Abs(boid.x - other.x) < parameters.visible_range
        /\ Abs(boid.y - other.y) < parameters.visible_range)

\* what the scan of boid i over the grid g adds to its close vector on
\* account of boid j
CloseContribution(bs, g, i, j) ==
    IF j \in Range(Candidates(g, bs[i], parameters.cell_size))
        THEN LET acc == ScanOne(ZeroAcc, i, bs[i], j, bs[j], parameters)
             IN  <<acc.close_dx, acc.close_dy>>
        ELSE <<0, 0>>

\* the tuple the task of boid i yields on the snapshot with draws rx, ry
TupleOnSnapshot(i, rx, ry) ==
    ComputeState(snapshot, GridOf(snapshot), height, width, parameters, i, rx, ry)

\* the tuple stored for boid i is the task's result on the snapshot and the
\* call's grid, for some draws of the random source (a nudged tuple carries
\* its draws as next_xv, next_yv)
ProducedOnSnapshot(i) ==
    LET st == new_boid_states[i]
        nudged == NudgeFires(snapshot[i], parameters)
        rx == IF nudged THEN st[3] ELSE 0
        ry == IF nudged THEN st[4] ELSE 0
    IN  /\ Len(st) = 5
        /\ rx \in Draws(snapshot[i], parameters)
        /\ ry \in Draws(snapshot[i], parameters)
        /\ st = ComputeState(snapshot, grid, height, width, parameters, i, rx, ry)

\* every <<key, position>> of the grid g that holds slot index i
Occurrences(g, i) ==
    {kn \in UNION {{<<k, n>> : n \in 1 .. Len(g[k])} : k \in DOMAIN g} :
        g[kn[1]][kn[2]] = i}

----------------------------------------------------------------------------
\* C1: every stored position lies in [0, width - 1] x [0, height - 1], from an
\* in-screen start and after any number of update_boids calls.
C1_BoundsInvariant == \A i \in Slots : InScreen(boids[i])

\* C2: with min_speed <= max_speed, after every update_boids call each stored
\* current_speed is 0 only if min_speed is 0, and lies in [min_speed, max_speed].
C2_SpeedFloor ==
    (frame > 0 /\ parameters.min_speed <= parameters.max_speed) =>
        \A i \in Slots :
            /\ boids[i].current_speed = 0 => parameters.min_speed = 0
            /\ parameters.min_speed <= boids[i].current_speed
            /\ boids[i].current_speed <= parameters.max_speed

\* a boid given velocity (0, 0) has been nudged and stores min_speed > 0, and a
\* boid too fast on entry stores max_speed
C2_Witness ==
    /\ Updated
    /\ \E i \in Slots :
        AtRest(snapshot[i]) /\ parameters.min_speed > 0
            /\ boids[i].current_speed = parameters.min_speed
    /\ \E j \in Slots :
        Speed(snapshot[j]) > parameters.max_speed
            /\ boids[j].current_speed = parameters.max_speed

\* C3: after an update_boids call, the stored current_speed of every boid the
\* random nudge did not fire for is the magnitude of its stored velocity.
C3_CachedSpeedIsMagnitude ==
    Updated =>
        \A i \in Slots :
            ~NudgeFires(snapshot[i], parameters) =>
                boids[i].current_speed = Speed(boids[i])

\* C4: until every task has produced its tuple the stored boids are those the
\* call began with, the grid is the one built from them, and every tuple
\* produced so far is the task's result on that starting snapshot.
C4_SnapshotIsolation ==
    /\ Len(order) < NumBoids => boids = snapshot
    /\ pc = "compute" => grid = GridOf(snapshot)
    /\ pc = "compute" =>
        \A k \in 1 .. Len(order) : ProducedOnSnapshot(order[k])

\* a task has produced a tuple that moves its boid while another task has yet
\* to run
C4_Witness ==
    /\ pc = "compute"
    /\ Len(order) = 1
    /\ new_boid_states[order[1]][1] # boids[order[1]].x
    /\ \E j \in Slots : j # order[1] /\ ~OutOfSight(boids[j], boids[order[1]])

\* C5: when no boid takes the random nudge, the committed collection is the one
\* fixed by the snapshot, slot i holding the tuple of boid i, whatever the
\* order the tasks finished in.
C5_OrderIndependence ==
    (Updated /\ \A i \in Slots : ~NudgeFires(snapshot[i], parameters)) =>
        \A i \in Slots : boids[i] = ApplyState(snapshot[i], TupleOnSnapshot(i, 0, 0))

\* a nudge-free call has committed after its tasks finished last slot first,
\* with different tuples for the first two slots
C5_Witness ==
    /\ Updated
    /\ \A i \in Slots : ~NudgeFires(snapshot[i], parameters)
    /\ order[1] = NumBoids - 1
    /\ order[NumBoids] = 0
    /\ TupleOnSnapshot(0, 0, 0) # TupleOnSnapshot(1, 0, 0)

\* C6: two boids alone and at rest, apart only along x by less than
\* protected_range, with min_speed > 0: after one update_boids call the one
\* with the larger x has moved in +x, the other in -x, both store min_speed.
C6_TwoBoidSeparation ==
    Updated =>
        \A i \in Slots : \A j \in Slots :
            ( /\ i # j
              /\ AtRest(snapshot[i]) /\ AtRest(snapshot[j])
              /\ snapshot[i].y = snapshot[j].y
              /\ snapshot[i].x > snapshot[j].x
              /\ SquaredDistance(snapshot[i].x - snapshot[j].x, 0)
                    < protected_range_squared(parameters)
              /\ parameters.min_speed > 0
              /\ \A k \in Slots \ {i, j} :
                    OutOfSight(snapshot[i], snapshot[k])
                        /\ OutOfSight(snapshot[j], snapshot[k]) )
            => /\ boids[i].x > snapshot[i].x
               /\ boids[j].x < snapshot[j].x
               /\ boids[i].current_speed = parameters.min_speed
               /\ boids[j].current_speed = parameters.min_speed

\* the close contributions of two boids to each other are non-zero, point from
\* the other boid to the scanning one, and are negatives of each other
SeparatesPair(bs, g, i, j) ==
    LET to_i == CloseContribution(bs, g, i, j)
        to_j == CloseContribution(bs, g, j, i)
    IN  /\ to_i # <<0, 0>>
        /\ to_i = <<bs[i].x - bs[j].x, bs[i].y - bs[j].y>>
        /\ to_j = <<-to_i[1], -to_i[2]>>

\* a pair of boids, each pair taken once, at different places
Apart(bs, i, j) == i < j /\ (bs[i].x # bs[j].x \/ bs[i].y # bs[j].y)

C8_GridPartition ==
    (pc = "compute" /\ \A i \in Slots : NonNegative(snapshot[i])) =>
        /\ \A i \in Slots :
            /\ Cardinality(Occurrences(grid, i)) = 1
            /\ \A kn \in Occurrences(grid, i) :
                kn[1] = <<FloorCell(snapshot[i].x, parameters.cell_size),
                          FloorCell(snapshot[i].y, parameters.cell_size)>>
        /\ \A k \in DOMAIN grid :
            /\ Len(grid[k]) > 0
            /\ \A n \in 1 .. Len(grid[k]) : grid[k][n] \in Slots
            /\ \A n \in 1 .. (Len(grid[k]) - 1) : grid[k][n] < grid[k][n + 1]
        /\ Len(order) = 0 => boids = snapshot

\* a grid built in a later frame holds a cell with more than one boid
C8_Witness ==
    /\ pc = "compute"
    /\ frame > 0
    /\ \A i \in Slots : NonNegative(snapshot[i])
    /\ \E k \in DOMAIN grid : Len(grid[k]) >= 2

\* C9: a boid at rest with nobody in sight, within margin of the left and the
\* top edge, has after one update_boids call a velocity with both components
\* strictly positive.
C9_CornerTurn ==
    Updated =>
        \A i \in Slots :
            ( /\ AtRest(snapshot[i])
              /\ snapshot[i].x < U32AsF32(parameters.margin)
              /\ snapshot[i].y < U32AsF32(parameters.margin)
              /\ \A j \in Slots \ {i} : OutOfSight(snapshot[i], snapshot[j]) )
            => boids[i].xv > 0 /\ boids[i].yv > 0

\* C10: in every reachable state the cell the scan of a boid is centred on is
\* the key populate_grid files the boid under.
C10_ScanCentreIsGridKey ==
    \A i \in Slots :
        ScanCentre(boids[i], parameters.cell_size) = GridKey(boids[i], parameters.cell_size)

====
